---- MODULE Spec2Model ----
(***************************************************************************)
(* uoyweek: which University of York term, week and weekday is it now?     *)
(*                                                                         *)
(* A model of src/src/main.rs.  A chrono Date<Tz> is the number of its     *)
(* civil day counted from 1970-01-01 (day 0, a Thursday); a DateTime<Tz>   *)
(* is the instant it denotes, in whole hours of UTC since 1970-01-01T00Z   *)
(* (every boundary the program builds is a local midnight, and London's    *)
(* offsets are whole hours).  DateTime<Tz> values compare by instant.      *)
(***************************************************************************)
EXTENDS Integers, Sequences, FiniteSets, TLC

VARIABLES
    pc,      \* where main is: "sort", "clock", "get_term", "report", "exit", "panic"
    terms,   \* main's terms: the table
    now,     \* main's now (0 until the clock is read)
    term,    \* main's term: what get_term returned (None until it has)
    stdout   \* the lines printed, each the sequence of its tokens

vars == <<pc, terms, now, term, stdout>>

(***************************************************************************)
(* Bounds of the model.                                                    *)
(***************************************************************************)
\* The clock is read from this many hours before the earliest boundary of
\* the term table to this many hours after the latest.
ClockMarginHours == 2

\* The other tables: at most MaxTerms rows, whose first and last days are
\* among AnyDays consecutive days.
MaxTerms == 2

AnyDays == 2

(***************************************************************************)
(* chrono: the proleptic Gregorian calendar.                               *)
(***************************************************************************)
HoursPerDay == 24

DaysPerWeek == 7

\* London.ymd(y, m, d): the date, as days since 1970-01-01.
ymd(y, m, d) ==
    LET yy  == IF m <= 2 THEN y - 1 ELSE y
        era == yy \div 400
        yoe == yy - era * 400
        mp  == (m + 9) % 12
        doy == (153 * mp + 2) \div 5 + d - 1
        doe == yoe * 365 + yoe \div 4 - yoe \div 100 + doy
    IN  era * 146097 + doe - 719468

\* Datelike::year of a date.
year(date) ==
    LET z   == date + 719468
        era == z \div 146097
        doe == z - era * 146097
        yoe == (doe - doe \div 1460 + doe \div 36524 - doe \div 146096) \div 365
        doy == doe - (365 * yoe + yoe \div 4 - yoe \div 100)
        mp  == (5 * doy + 2) \div 153
    IN  yoe + era * 400 + (IF mp < 10 THEN 0 ELSE 1)

succ(date) == date + 1

pred(date) == date - 1

WeekdayNames == <<"Mon", "Tue", "Wed", "Thu", "Fri", "Sat", "Sun">>

\* Days since Monday, 0..6.
num_days_from_monday(date) == (date + 3) % DaysPerWeek

\* Datelike::weekday, by its abbreviated name (what format("%a") prints).
weekday(date) == WeekdayNames[num_days_from_monday(date) + 1]

\* Datelike::iso_week().week(): the number of the ISO 8601 week of the date,
\* the weeks of a year being those whose Thursday lies in it.
iso_week(date) ==
    LET thursday == date - num_days_from_monday(date) + 3
    IN  (thursday - ymd(year(thursday), 1, 1)) \div DaysPerWeek + 1

\* The ISO week-year of the date: the year of its week's Thursday.
iso_year(date) == year(date - num_days_from_monday(date) + 3)

(***************************************************************************)
(* chrono_tz::Europe::London: GMT, and BST (UTC+1) from 01:00 UTC of the   *)
(* last Sunday of March to 01:00 UTC of the last Sunday of October.        *)
(***************************************************************************)
LastSunday(y, m) ==
    LET last == ymd(y, m, 31)
    IN  last - ((num_days_from_monday(last) + 1) % DaysPerWeek)

\* The offset from UTC, in hours, in force at the instant utc.
\* chrono_tz looks the offset up in a table of London's transitions, by the
\* instant.  The table: the first and the first-after-last instant of summer
\* time in each year (the rule in force since 1996), for 1996..2100.
SummerTime ==
    [y \in 1996..2100 |->
        <<LastSunday(y, 3) * HoursPerDay + 1, LastSunday(y, 10) * HoursPerDay + 1>>]

\* The row of SummerTime to look an instant up in: its year by the mean
\* year of 8766 hours.  Within a day or so of New Year that may be the
\* neighbouring year, whose row gives such an instant the same offset, GMT.
summer_time_row(utc) == 1970 + utc \div 8766

\* The offset from UTC, in hours, in force at the instant utc.
offset(utc) ==
    LET bst == SummerTime[summer_time_row(utc)]
    IN  IF bst[1] <= utc /\ utc < bst[2] THEN 1 ELSE 0

\* Date<Tz>::and_hms(h, 0, 0): the instant at which London's clocks show
\* hour h of the date.  (Midnight is never skipped or repeated in London.)
and_hms(date, h) ==
    LET local == date * HoursPerDay + h
    IN  IF offset(local - 1) = 1 THEN local - 1 ELSE local

\* DateTime<Tz>::date(): the civil date London's clocks show at the instant.
date(t) == (t + offset(t)) \div HoursPerDay

\* London.from_utc_datetime(&Utc::now().naive_utc()).
from_utc_datetime(utc) == utc

(***************************************************************************)
(* The term! and terms! macros, TermName and Term.                         *)
(***************************************************************************)
TermName == <<"Autumn", "Spring", "Summer">>

shortname(name) ==
    CASE name = "Autumn" -> "Aut"
      [] name = "Spring" -> "Spr"
      [] name = "Summer" -> "Sum"

\* term!(name, sy-sm-sd to ey-em-ed), a Term: from midnight of the first day to
\* midnight after the last day.
Term(name, sy, sm, sd, ey, em, ed) ==
    [name  |-> name,
     start |-> and_hms(ymd(sy, sm, sd), 0),
     end   |-> and_hms(succ(ymd(ey, em, ed)), 0)]

\* terms!(rows): one Term for each row <<name, sy, sm, sd, ey, em, ed>>.
terms_of(rows) ==
    [i \in 1..Len(rows) |->
        Term(rows[i][1], rows[i][2], rows[i][3], rows[i][4],
             rows[i][5], rows[i][6], rows[i][7])]

\* The rows of the table in main, from <https://www.york.ac.uk/about/term-dates/>.
TermDates ==
    << <<"Autumn", 2018,  9, 24, 2018, 11, 30>>,
       <<"Spring", 2019,  1,  7, 2019,  3, 15>>,
       <<"Summer", 2019,  4, 15, 2019,  6, 21>>,
       <<"Autumn", 2019,  9, 30, 2019, 12,  6>>,
       <<"Spring", 2020,  1,  6, 2020,  3, 13>>,
       <<"Summer", 2020,  4, 14, 2020,  6, 19>>,
       <<"Autumn", 2020,  9, 28, 2020, 12,  3>>,
       <<"Spring", 2021,  1, 11, 2021,  3, 19>>,
       <<"Summer", 2021,  4, 19, 2021,  6, 25>>,
       <<"Autumn", 2021,  9, 27, 2021, 12,  3>>,
       <<"Spring", 2022,  1, 10, 2022,  3, 18>>,
       <<"Summer", 2022,  4, 19, 2022,  6, 24>>,
       <<"Autumn", 2022,  9, 26, 2022, 12,  2>>,
       <<"Spring", 2023,  1,  9, 2023,  3, 17>>,
       <<"Summer", 2023,  4, 17, 2023,  6, 23>>,
       <<"Autumn", 2023,  9, 25, 2023, 12,  1>>,
       <<"Spring", 2024,  1,  8, 2024,  3, 15>>,
       <<"Summer", 2024,  4, 15, 2024,  6, 21>>,
       <<"Autumn", 2024,  9, 23, 2024, 11, 29>>,
       <<"Spring", 2025,  1,  6, 2024,  3, 14>>,
       <<"Summer", 2025,  4, 22, 2025,  6, 27>>,
       <<"Autumn", 2025,  9, 29, 2025, 12,  5>>,
       <<"Spring", 2026,  1, 12, 2026,  3, 20>>,
       <<"Summer", 2026,  4, 20, 2026,  6, 26>>,
       <<"Autumn", 2026,  9, 28, 2026, 12,  4>>,
       <<"Spring", 2027,  1, 11, 2027,  3, 19>>,
       <<"Summer", 2027,  4, 19, 2027,  6, 25>>,
       <<"Autumn", 2027,  9, 27, 2027, 12,  3>>,
       <<"Spring", 2028,  1, 10, 2028,  3, 17>>,
       <<"Summer", 2028,  4, 24, 2028,  6, 30>> >>

RECURSIVE walk_back_succ(_)
\* walk_back stepping the wrong way: s = s.succ().
walk_back_succ(s) == IF weekday(s) # "Mon" THEN walk_back_succ(succ(s)) ELSE s

RECURSIVE walk_back(_)
\* let mut s = ...; while s.weekday() != Weekday::Mon { s = s.pred(); }
walk_back(s) == IF weekday(s) # "Mon" THEN walk_back(pred(s)) ELSE s

RECURSIVE walk_forward_pred(_)
\* walk_forward stepping the wrong way: e = e.pred().
walk_forward_pred(e) == IF weekday(e) # "Mon" THEN walk_forward_pred(pred(e)) ELSE e

RECURSIVE walk_forward(_)
\* let mut e = ...; while e.weekday() != Weekday::Mon { e = e.succ(); }
walk_forward(e) == IF weekday(e) # "Mon" THEN walk_forward(succ(e)) ELSE e

\* Term::loose_start: midnight of the Monday on or before the start.
loose_start(t) == and_hms(walk_back(date(t.start)), 0)

\* loose_end adding whole days of 24 hours to the end instead of walking the
\* calendar and taking the midnight.
loose_end_by_duration(t) ==
    t.end + HoursPerDay * ((DaysPerWeek - num_days_from_monday(date(t.end))) % DaysPerWeek)

\* Term::loose_end: midnight of the Monday on or after the end.
loose_end(t) == and_hms(walk_forward(date(t.end)), 0)

(***************************************************************************)
(* Option<&Term>: None is the empty sequence, Some(t) is <<t>>.            *)
(***************************************************************************)
None == << >>

Some(t) == <<t>>

\* last taking the first element.
last_is_first(s) == IF s = << >> THEN None ELSE Some(s[1])

\* Iterator::last of a sequence.
last(s) == IF s = << >> THEN None ELSE Some(s[Len(s)])

\* get_term without the upper bound of the filter.
get_term_from_start(ts, n) == last(SelectSeq(ts, LAMBDA t : loose_start(t) <= n))

get_term(ts, n) ==
    last(SelectSeq(ts, LAMBDA t : loose_start(t) <= n /\ n <= loose_end(t)))

get_strict_term(ts, n) ==
    last(SelectSeq(ts, LAMBDA t : t.start <= n /\ n <= t.end))

(***************************************************************************)
(* main.                                                                   *)
(***************************************************************************)
RECURSIVE sorted_orders(_, _)
\* The orders of the indices in idx by ascending key, whichever way equal
\* keys fall.
sorted_orders(key, idx) ==
    IF idx = {} THEN {<< >>}
    ELSE LET firsts == {i \in idx : \A j \in idx : key[i] <= key[j]}
         IN  UNION {{<<i>> \o rest : rest \in sorted_orders(key, idx \ {i})} :
                    i \in firsts}

\* terms.sort_unstable_by_key(|term| term.start()): the results the sort may
\* leave; it promises no order among terms of equal start.
sort_unstable_by_key(ts) ==
    {[k \in 1..Len(ts) |-> ts[order[k]]] :
        order \in sorted_orders([i \in 1..Len(ts) |-> ts[i].start], 1..Len(ts))}

\* weeknum without the + 1.
weeknum_from_zero(t, n) == iso_week(date(n)) - iso_week(date(t.start))

\* let weeknum = now.iso_week().week() as i32 - term.start().iso_week().week() as i32 + 1
weeknum_of(t, n) == iso_week(date(n)) - iso_week(date(t.start)) + 1

\* The lines main prints, by their tokens.
in_term_line(t, n) ==
    <<shortname(t.name), "/", ToString(weeknum_of(t, n)), "/", weekday(date(n))>>

loose_line(t, n) == <<"(">> \o in_term_line(t, n) \o <<")">>

na_line == <<"n/a">>

\* The instants at which the system clock may be read.
Clock(ts) ==
    LET bounds == UNION {{ts[i].start, ts[i].end, loose_start(ts[i]), loose_end(ts[i])} :
                            i \in 1..Len(ts)}
        lo == CHOOSE b \in bounds : \A c \in bounds : b <= c
        hi == CHOOSE b \in bounds : \A c \in bounds : c <= b
    IN  (lo - ClockMarginHours) .. (hi + ClockMarginHours)

\* After construction: the table as the terms! macro builds it.
Init ==
    /\ pc = "sort"
    /\ terms = terms_of(TermDates)
    /\ now = 0
    /\ term = None
    /\ stdout = << >>

\* Any table of dates from Saturday 2023-10-28 on, the weekend summer time
\* ended, with the names running Autumn, Spring, Summer as in main's.
AnyDates == {<<2023, 10, 27 + k>> : k \in 1..AnyDays}

AnyTermDates ==
    UNION {{[i \in 1..n |-> <<TermName[((i - 1) % 3) + 1]>> \o d[i][1] \o d[i][2]] :
                d \in [1..n -> AnyDates \X AnyDates]} : n \in 1..MaxTerms}

InitAny ==
    /\ pc = "sort"
    /\ terms \in {terms_of(rows) : rows \in AnyTermDates}
    /\ now = 0
    /\ term = None
    /\ stdout = << >>

SortTerms ==
    /\ pc = "sort"
    /\ terms' \in sort_unstable_by_key(terms)
    /\ pc' = "clock"
    /\ UNCHANGED <<now, term, stdout>>

ReadClock ==
    /\ pc = "clock"
    /\ \E utc \in Clock(terms) : now' = from_utc_datetime(utc)
    /\ pc' = "get_term"
    /\ UNCHANGED <<terms, term, stdout>>

\* get_term(&terms, now), the head of main's if let.
GetTerm ==
    /\ pc = "get_term"
    /\ term' = get_term(terms, now)
    /\ pc' = "report"
    /\ UNCHANGED <<terms, now, stdout>>

\* Report with the two formats exchanged.
ReportExchanged ==
    /\ pc = "report"
    /\ IF term # None
       THEN LET strict_term == get_strict_term(terms, now)
            IN  IF strict_term # None
                THEN IF strict_term[1] = term[1]
                     THEN /\ stdout' = Append(stdout, loose_line(term[1], now))
                          /\ pc' = "exit"
                     ELSE /\ stdout' = stdout
                          /\ pc' = "panic"
                ELSE /\ stdout' = Append(stdout, in_term_line(term[1], now))
                     /\ pc' = "exit"
       ELSE /\ stdout' = Append(stdout, na_line)
            /\ pc' = "exit"
    /\ UNCHANGED <<terms, now, term>>

\* Report without the assert_eq!.
ReportUnasserted ==
    /\ pc = "report"
    /\ IF term # None
       THEN /\ stdout' = Append(stdout, IF get_strict_term(terms, now) # None
                                        THEN in_term_line(term[1], now)
                                        ELSE loose_line(term[1], now))
            /\ pc' = "exit"
       ELSE /\ stdout' = Append(stdout, na_line)
            /\ pc' = "exit"
    /\ UNCHANGED <<terms, now, term>>

\* The two arms of main's if let Some(term) = get_term(..): what is printed,
\* or the panic of assert_eq!(strict_term, term).
Report ==
    /\ pc = "report"
    /\ IF term # None
       THEN LET strict_term == get_strict_term(terms, now)
            IN  IF strict_term # None
                THEN IF strict_term[1] = term[1]
                     THEN /\ stdout' = Append(stdout, in_term_line(term[1], now))
                          /\ pc' = "exit"
                     ELSE /\ stdout' = stdout
                          /\ pc' = "panic"
                ELSE /\ stdout' = Append(stdout, loose_line(term[1], now))
                     /\ pc' = "exit"
       ELSE /\ stdout' = Append(stdout, na_line)
            /\ pc' = "exit"
    /\ UNCHANGED <<terms, now, term>>

Next == SortTerms \/ ReadClock \/ GetTerm \/ Report

Spec == Init /\ [][Next]_vars

\* Any table of the bounded ones.
SpecAny == InitAny /\ [][Next]_vars

\* main's table or any of the bounded ones.
SpecAll == (Init \/ InitAny) /\ [][Next]_vars

(***************************************************************************)
(* Properties.                                                             *)
(***************************************************************************)
\* main has called get_term: term holds its answer for now.
Resolved == pc \in {"report", "exit", "panic"}

\* What get_strict_term answers for now.
Strict == get_strict_term(terms, now)

Covers(t, n) == loose_start(t) <= n /\ n <= loose_end(t)

Contains(t, n) == t.start <= n /\ n <= t.end

IsNaLine(l) == l = <<"n/a">>

IsInTermLine(l) ==
    /\ Len(l) = 5
    /\ l[1] \in {"Aut", "Spr", "Sum"}
    /\ l[2] = "/"
    /\ l[4] = "/"
    /\ \E d \in 1..Len(WeekdayNames) : l[5] = WeekdayNames[d]

IsLooseLine(l) ==
    /\ Len(l) = 7
    /\ l[1] = "("
    /\ l[7] = ")"
    /\ IsInTermLine(SubSeq(l, 2, 6))

\* The week number a line shows.
WeekToken(l) == IF Len(l) = 7 THEN l[4] ELSE l[3]

\* The Monday of the week of the instant n, a date.
MondayOf(n) == date(n) - num_days_from_monday(date(n))

\* C1: with main's table, at every instant at which get_strict_term returns
\* a term get_term returns that same term, so assert_eq! never fails and the
\* run never panics.
C1_StrictTermIsTerm ==
    /\ pc # "panic"
    /\ Resolved => (Strict # None => Strict = term)

C1_Witness == pc = "exit" /\ Strict # None /\ Strict = term

\* C2: with main's table, main prints exactly one line, and nothing before
\* it: n/a exactly when get_term returns none (so before the first loose
\* start, after the last loose end, in every gap between loose ranges, in
\* mid-July), Short/N/Day exactly when get_term and get_strict_term both
\* return a term, (Short/N/Day) exactly when only get_term does.
C2_OneLineByResolution ==
    /\ pc # "panic"
    /\ pc # "exit" => stdout = << >>
    /\ pc = "exit" =>
        /\ Len(stdout) = 1
        /\ IsNaLine(stdout[1]) <=> term = None
        /\ IsInTermLine(stdout[1]) <=> (term # None /\ Strict # None)
        /\ IsLooseLine(stdout[1]) <=> (term # None /\ Strict = None)
        /\ (\A i \in 1..Len(terms) : ~Covers(terms[i], now)) => IsNaLine(stdout[1])
        /\ now = and_hms(ymd(2023, 7, 15), 12) => IsNaLine(stdout[1])

C2_Witness == pc = "exit" /\ IsLooseLine(stdout[1]) /\ term # None /\ Strict = None

\* C3: a query at the instant a term ends is not strictly within that term:
\* get_strict_term does not return it and the line is not Short/N/Day.
C3_EndIsOutsideTerm ==
    pc = "exit" =>
        \A i \in 1..Len(terms) :
            now = terms[i].end =>
                Strict # Some(terms[i]) /\ ~IsInTermLine(stdout[1])

\* C4: every term of main's table starts strictly before it ends.
C4_StartBeforeEnd == \A i \in 1..Len(terms) : terms[i].start < terms[i].end

\* C5: for any table sorted by start, get_term returns a term of the latest
\* start among those whose loose range holds now, get_strict_term one of the
\* latest start among those whose strict range holds now, and each returns
\* none exactly when no range does.
C5_LatestStartWins ==
    Resolved =>
        LET loose  == {i \in 1..Len(terms) : Covers(terms[i], now)}
            strict == {i \in 1..Len(terms) : Contains(terms[i], now)}
        IN  /\ term = None <=> loose = {}
            /\ term # None =>
                /\ \E i \in loose : term[1] = terms[i]
                /\ \A i \in loose : terms[i].start <= term[1].start
            /\ Strict = None <=> strict = {}
            /\ Strict # None =>
                /\ \E i \in strict : Strict[1] = terms[i]
                /\ \A i \in strict : terms[i].start <= Strict[1].start

C5_Witness ==
    /\ Resolved
    /\ \E i, j \in 1..Len(terms) :
        /\ terms[i].start < terms[j].start
        /\ Covers(terms[i], now) /\ Covers(terms[j], now)
        /\ Contains(terms[i], now) /\ Contains(terms[j], now)
        /\ term = Some(terms[j]) /\ Strict = Some(terms[j])

\* C6: the loose start of every term is the midnight of a Monday, at or
\* before the start and less than 7 days before it; the loose end is the
\* midnight of a Monday, at or after the end and less than 7 days after it;
\* a start or end that is on a Monday is its own loose bound.
C6_LooseBoundsAreMondays ==
    pc \in {"sort", "clock"} =>
        \A i \in 1..Len(terms) :
            LET t  == terms[i]
                ls == loose_start(t)
                le == loose_end(t)
            IN  /\ weekday(date(ls)) = "Mon" /\ ls = and_hms(date(ls), 0)
                /\ ls <= t.start /\ t.start - ls < DaysPerWeek * HoursPerDay
                /\ weekday(date(le)) = "Mon" /\ le = and_hms(date(le), 0)
                /\ le >= t.end /\ le - t.end < DaysPerWeek * HoursPerDay
                /\ weekday(date(t.start)) = "Mon" => ls = t.start
                /\ weekday(date(t.end)) = "Mon" => le = t.end

C6_Witness ==
    /\ pc = "clock"
    /\ \E i \in 1..Len(terms) :
        /\ weekday(date(terms[i].end)) = "Mon"
        /\ loose_end(terms[i]) = terms[i].end
        /\ weekday(date(terms[i].start)) = "Sat"
        /\ terms[i].start - loose_start(terms[i]) = 5 * HoursPerDay

\* C7: with main's table, whenever now is in the loose range of a term, now
\* and the term's start are in the same ISO week-year, and the week number
\* printed is 1 plus the whole weeks from the loose start to the Monday of
\* now's week: at least 1, 1 at the start, Aut/3/Mon at 2023-10-09 14:00 and
\* (Aut/10/Sat) at 2023-12-02 09:00.
C7_WeekNumber ==
    pc = "exit" =>
        /\ \A i \in 1..Len(terms) :
            Covers(terms[i], now) =>
                LET t == terms[i]
                    n == 1 + (MondayOf(now) - date(loose_start(t))) \div DaysPerWeek
                IN  /\ iso_year(date(now)) = iso_year(date(t.start))
                    /\ term = Some(t)
                    /\ WeekToken(stdout[1]) = ToString(n)
                    /\ n >= 1
                    /\ now = t.start => WeekToken(stdout[1]) = "1"
        /\ now = and_hms(ymd(2023, 10, 9), 14) =>
            stdout[1] = <<"Aut", "/", "3", "/", "Mon">>
        /\ now = and_hms(ymd(2023, 12, 2), 9) =>
            stdout[1] = <<"(", "Aut", "/", "10", "/", "Sat", ")">>

C7_Witness ==
    /\ pc = "exit"
    /\ now = and_hms(ymd(2023, 12, 2), 9)
    /\ term # None
    /\ WeekToken(stdout[1]) = "10"

\* C8: for every term, inverted or not, an instant in its strict range is in
\* its loose range; so get_strict_term returns no term where get_term
\* returns none.
C8_StrictWithinLoose ==
    Resolved =>
        /\ \A i \in 1..Len(terms) : Contains(terms[i], now) => Covers(terms[i], now)
        /\ term = None => Strict = None

C8_Witness ==
    /\ Resolved
    /\ \E i \in 1..Len(terms) :
        /\ now = terms[i].end
        /\ Contains(terms[i], now)
        /\ loose_end(terms[i]) > now
    /\ Strict # None
    /\ term # None

\* C9: for any table, when get_strict_term returns a term other than the one
\* get_term returns, main panics at the assertion with nothing printed.
C9_MismatchPanicsUnprinted ==
    /\ pc = "panic" => stdout = << >>
    /\ (pc \in {"exit", "panic"} /\ Strict # None /\ Strict # term) =>
        (pc = "panic" /\ stdout = << >>)

C9_Witness == pc = "panic" /\ Strict # None /\ term # None /\ Strict # term

\* The row of main's table for the spring term of 2024-25, as written.
Spring2025 == Term("Spring", 2025, 1, 6, 2024, 3, 14)

\* C10: the row Spring 2025-01-06 to 2024-03-14 of main's table is returned
\* by neither query at any instant, and from 2025-01-06 00:00 up to
\* 2025-03-15 00:00 no term is found and n/a is printed.
C10_Spring2025IsNa ==
    Resolved =>
        /\ term # Some(Spring2025)
        /\ Strict # Some(Spring2025)
        /\ (and_hms(ymd(2025, 1, 6), 0) <= now /\ now < and_hms(ymd(2025, 3, 15), 0)) =>
            /\ term = None
            /\ Strict = None
            /\ pc = "exit" => stdout = <<na_line>>

C10_Witness ==
    /\ pc = "exit"
    /\ now = and_hms(ymd(2025, 2, 3), 12)
    /\ \E i \in 1..Len(terms) : terms[i] = Spring2025
    /\ stdout = <<na_line>>

====
